---- MODULE Spec2Model ----
(***************************************************************************)
(* Model of the retry / cache pipeline of the stock advisor connectors:    *)
(*   connectors/intrinio_data.py  retry_server_errors and the cached       *)
(*                                operations it decorates                  *)
(*   connectors/yfinance_data.py  get_enriched_prices                      *)
(* Every caller is a thread of control with its own locals; the financial  *)
(* cache is the one shared object.                                         *)
(***************************************************************************)
EXTENDS Integers, Sequences, FiniteSets, TLC

VARIABLES
    cache,             \* support.financial_cache.cache: key -> stored value
    calls,             \* number of operation calls started so far
    pc,                \* per caller: position in the called operation
    op,                \* per caller: the operation being called
    ticker,            \* per caller: the ticker argument of the call
    attempt,           \* per caller: loop variable of wrapper()
    sleeps,            \* per caller: number of time.sleep(2) of this call
    latest_exception,  \* per caller: local of wrapper()
    api_response,      \* per caller: local of the cached operation
    outcome,           \* per caller: what the call gave its caller
    hist,              \* per caller: outcome of every attempt of this call
    cache0,            \* per caller: the cache when this call started
    providerCalls,     \* per caller: provider invocations of this call
    providerOk,        \* per caller: those among them that returned a response
    writes,            \* per caller: cache.write invocations of this call
    hit,               \* per caller: the call's last cache.read was a hit
    prev,              \* per caller: the preceding call, when on the same key
    lastWrite,         \* the caller and the value of the latest cache.write
    fetched,           \* per key, the responses the provider has returned
    keyq,              \* cache keys: the two queries whose keys are built
    keyk,              \* cache keys: the keys built for them
    series,            \* aggregation: the historical data passed in
    aggOut,            \* aggregation: the function applied and what it gave
    aws_response_cache,\* aws_service_wrapper.aws_response_cache
    awsCall,           \* cf_list_exports: the latest call and what it gave
    pricing_dict,      \* PricingSvc.pricing_dict
    lastLoaded,        \* PricingSvc: per ticker, what its latest successful load got
    svc,               \* PricingSvc: the method in progress or ended, and its result
    lcp,               \* get_latest_close_price: the call in progress or ended
    stmt               \* per caller: locals of _read_historical_financial_statement

\* the state of the retry / cache pipeline
pipelineVars == <<cache, calls, pc, op, ticker, attempt, sleeps, latest_exception,
                  api_response, outcome, hist, cache0, providerCalls, providerOk,
                  writes, hit, prev, lastWrite, fetched>>

\* the state of the other components
keyVars == <<keyq, keyk>>
aggVars == <<series, aggOut>>
awsVars == <<aws_response_cache, awsCall>>
pricingVars == <<pricing_dict, lastLoaded, svc>>
otherVars == <<keyVars, aggVars, awsVars>>

\* the state of the functions that call the cached operations
callerVars == <<pricingVars, lcp, stmt>>

vars == <<pipelineVars, otherVars, callerVars>>

callVars == <<attempt, sleeps, latest_exception, outcome, hist>>

----------------------------------------------------------------------------
(* Bounds *)

MaxCalls == 2

Callers == {"c1", "c2"}

----------------------------------------------------------------------------
(* Values *)

\* None and a present value, for locals and results that may be None
NoneVal == [isNone |-> TRUE, v |-> << >>]
Some(x) == [isNone |-> FALSE, v |-> x]

\* the cause of an error: None, an exception without a status attribute, or
\* an ApiException with its status (an integer or not)
NoCause == [class |-> "None", hasStatus |-> FALSE, isInt |-> FALSE, status |-> 0]
PlainException == [class |-> "Exception", hasStatus |-> FALSE, isInt |-> FALSE, status |-> 0]
ApiException(s) == [class |-> "ApiException", hasStatus |-> TRUE, isInt |-> TRUE, status |-> s]
\* a status that is not an int, here the string "503" (int("503") is 503)
ApiExceptionNoIntStatus == [class |-> "ApiException", hasStatus |-> TRUE, isInt |-> FALSE, status |-> 503]

\* an exception object; "at" is the attempt that raised it (its identity)
NoException == [type |-> "None", cause |-> NoCause, at |-> 0]
DataError(c, a) == [type |-> "DataError", cause |-> c, at |-> a]
ValidationError(c, a) == [type |-> "ValidationError", cause |-> c, at |-> a]
NameError(a) == [type |-> "NameError", cause |-> NoCause, at |-> a]

\* how a function ends
NoOutcome == [kind |-> "none", value |-> << >>, exc |-> NoException]
Ret(v) == [kind |-> "return", value |-> v, exc |-> NoException]
Raise(e) == [kind |-> "raise", value |-> << >>, exc |-> e]

----------------------------------------------------------------------------
(* retry_server_errors *)

\* range(1, num_retries) in place of range(1, num_retries + 1)
num_retries_one_short == 5 - 1
num_retries == 5

\* except DataError as de (the first: except Exception as de)
Caught_any(exc) == TRUE
Caught(exc) == exc.type = "DataError"

\* cause == None or not hasattr(cause, 'status') or not isinstance(cause.status, int)
\* (the first: without the isinstance test)
Unclassifiable_no_isinstance(cause) == cause.class = "None" \/ ~cause.hasStatus
Unclassifiable(cause) == cause.class = "None" \/ ~cause.hasStatus \/ ~cause.isInt

\* status >= 500 (the first: status > 500)
IsServerError_gt(status) == status > 500
IsServerError(status) == status >= 500

\* One pass of the try/except of wrapper() on the outcome of func: what the
\* wrapper does next, its latest_exception and what it gives the caller.
\* (The first: a return after an earlier error raises that error.)
OnAttempt_raise_after_error(out, latest) ==
    IF out.kind = "return"
    THEN [next |-> "done", latest |-> latest,
          give |-> IF latest = NoException THEN out ELSE Raise(latest)]
    ELSE IF ~Caught(out.exc) THEN [next |-> "done", latest |-> latest, give |-> out]
    ELSE IF Unclassifiable(out.exc.cause)
         THEN [next |-> "done", latest |-> out.exc, give |-> Raise(out.exc)]
         ELSE IF IsServerError(out.exc.cause.status)
         THEN [next |-> "sleep", latest |-> out.exc, give |-> NoOutcome]
         ELSE [next |-> "done", latest |-> out.exc, give |-> Raise(out.exc)]
OnAttempt_forgets_latest(out, latest) ==
    IF out.kind = "return" THEN [next |-> "done", latest |-> latest, give |-> out]
    ELSE IF ~Caught(out.exc) THEN [next |-> "done", latest |-> latest, give |-> out]
    ELSE IF Unclassifiable(out.exc.cause)
         THEN [next |-> "done", latest |-> out.exc, give |-> Raise(out.exc)]
         ELSE IF IsServerError(out.exc.cause.status)
         THEN [next |-> "sleep", latest |-> latest, give |-> NoOutcome]
         ELSE [next |-> "done", latest |-> out.exc, give |-> Raise(out.exc)]
OnAttempt(out, latest) ==
    IF out.kind = "return" THEN [next |-> "done", latest |-> latest, give |-> out]
    ELSE IF ~Caught(out.exc) THEN [next |-> "done", latest |-> latest, give |-> out]
    ELSE IF Unclassifiable(out.exc.cause)
         THEN [next |-> "done", latest |-> out.exc, give |-> Raise(out.exc)]
         ELSE IF IsServerError(out.exc.cause.status)
         THEN [next |-> "sleep", latest |-> out.exc, give |-> NoOutcome]
         ELSE [next |-> "done", latest |-> out.exc, give |-> Raise(out.exc)]

\* the attempt a call of wrapper() begins with: range(1, num_retries + 1) is
\* made anew by each call (the first: a counter that outlives the call)
FirstAttempt_carried_over(p) == IF attempt[p] = 0 THEN 1 ELSE attempt[p]
FirstAttempt(p) == 1

\* where func starts, per operation
StartPc(o) == IF o = "func" THEN "run" ELSE IF o = "statement" THEN "begin" ELSE "read"

\* wrapper(): func has ended with out in the current attempt
Wrapper(p, out) ==
    LET d == OnAttempt(out, latest_exception[p]) IN
    /\ hist' = [hist EXCEPT ![p] = Append(@, out)]
    /\ latest_exception' = [latest_exception EXCEPT ![p] = d.latest]
    /\ outcome' = [outcome EXCEPT ![p] = d.give]
    /\ pc' = [pc EXCEPT ![p] = d.next]
    /\ UNCHANGED <<attempt, sleeps>>

\* time.sleep(2), then the next iteration of the for loop, or, after the
\* last one, raise latest_exception
Sleep(p) ==
    /\ pc[p] = "sleep"
    /\ sleeps' = [sleeps EXCEPT ![p] = @ + 1]
    /\ IF attempt[p] < num_retries
       THEN /\ attempt' = [attempt EXCEPT ![p] = @ + 1]
            /\ pc' = [pc EXCEPT ![p] = StartPc(op[p])]
            /\ UNCHANGED outcome
       ELSE /\ outcome' = [outcome EXCEPT ![p] = Raise(latest_exception[p])]
            /\ pc' = [pc EXCEPT ![p] = "done"]
            /\ UNCHANGED attempt
    /\ UNCHANGED <<cache, calls, op, ticker, latest_exception, api_response, hist,
                   cache0, providerCalls, providerOk, writes, hit, prev, lastWrite, fetched>>
    /\ UNCHANGED <<otherVars, callerVars>>

----------------------------------------------------------------------------
(* A decorated function of which only the outcome of each attempt matters *)

FuncValues == {<<1>>, <<2>>}

FuncCauses == {NoCause, PlainException, ApiExceptionNoIntStatus}
                  \cup {ApiException(s) : s \in {404, 499, 500, 503}}

FuncOutcomes(a) ==
    {Ret(v) : v \in FuncValues}
        \cup {Raise(DataError(c, a)) : c \in FuncCauses}
        \cup {Raise(ValidationError(c, a)) : c \in {NoCause, ApiException(503)}}

\* a call of the decorated function: wrapper() starts
CallFunc(p) ==
    /\ pc[p] \in {"idle", "done"}
    /\ op' = [op EXCEPT ![p] = "func"]
    /\ pc' = [pc EXCEPT ![p] = "run"]
    /\ attempt' = [attempt EXCEPT ![p] = FirstAttempt(p)]
    /\ sleeps' = [sleeps EXCEPT ![p] = 0]
    /\ latest_exception' = [latest_exception EXCEPT ![p] = NoException]
    /\ outcome' = [outcome EXCEPT ![p] = NoOutcome]
    /\ hist' = [hist EXCEPT ![p] = << >>]
    /\ prev' = [prev EXCEPT ![p] =
                    IF pc[p] = "done"
                    THEN [valid |-> TRUE, outcome |-> outcome[p],
                          attempts |-> Len(hist[p]), providerCalls |-> 0]
                    ELSE [valid |-> FALSE, outcome |-> NoOutcome, attempts |-> 0,
                          providerCalls |-> 0]]
    /\ UNCHANGED <<cache, calls, ticker, api_response, cache0, providerCalls,
                   providerOk, writes, hit, lastWrite, fetched>>
    /\ UNCHANGED <<otherVars, callerVars>>

\* return func(*args, **kwargs)
RunFunc(p) ==
    /\ pc[p] = "run"
    /\ \E out \in FuncOutcomes(attempt[p]) : Wrapper(p, out)
    /\ UNCHANGED <<cache, calls, op, ticker, api_response, cache0, providerCalls,
                   providerOk, writes, hit, prev, lastWrite, fetched>>
    /\ UNCHANGED <<otherVars, callerVars>>

----------------------------------------------------------------------------
(* The cached operations *)

\* get_daily_stock_close_prices, get_macd_indicator, get_sma_indicator,
\* _read_company_data_point, _get_company_historical_data (intrinio_data.py)
\* and get_enriched_prices (yfinance_data.py)
IntrinioOps == {"closing_prices", "tech_macd", "tech_sma", "data_point",
                "historical_data"}
Ops == IntrinioOps \cup {"enriched_prices"}

Tickers == {"AAPL", "MSFT"}

\* the fiscal years statements are asked for
StmtYears == 2018..2019

\* the cache key of a query: one per operation and ticker, and one per
\* fiscal year and ticker for the financial statements
\* the date ranges prices are loaded for, and what the cache key of
\* get_enriched_prices has of a ticker and a date range
PriceRanges == {"2021-01", "2021-02"}
PricesQuery(t, r) == IF r = "2021-01" THEN t ELSE t \o "-" \o r

Keys ==
    ((Ops \cup {"statement_" \o ToString(y) : y \in StmtYears}) \X Tickers)
        \cup ({"enriched_prices"} \X {PricesQuery(t, r) : t \in Tickers, r \in PriceRanges})
Key(p) == <<op[p], ticker[p]>>

\* support.financial_cache.cache: read gives the stored value or None, write
\* replaces the value of the key
cache_read(c, k) == c[k]
cache_write(c, k, v) == [c EXCEPT ![k] = Some(v)]

\* the operations decorated with @retry_server_errors
Wrapped(o) == o \in IntrinioOps \cup {"statement"}

\* the operations that call cache.write inside the try block, right after the
\* provider call
WritesInTry(o) == o \in {"closing_prices", "tech_macd", "tech_sma", "data_point",
                         "enriched_prices"}

\* the operations that raise DataError on an empty result list
ChecksEmpty(o) == o \in {"closing_prices", "tech_macd", "tech_sma", "historical_data"}

\* What the providers can answer. An Intrinio response is its result list
\* (prices, technicals, historical data; the number of a data point is a list
\* of one), a Yahoo price history is its Close column in units of 1e-11.
Responses(o) ==
    IF o = "enriched_prices" THEN {<<1230>>, <<1234>>}
    ELSE IF o = "data_point" THEN {<<1>>, <<2>>}
    ELSE IF o = "closing_prices" THEN {<< >>, <<1>>, <<2>>, <<2, 1>>}
    ELSE {<< >>, <<1>>, <<2>>}

\* What the providers can raise: an ApiException with a status, or another
\* exception (yfinance raises no ApiException)
ProviderErrors(o) ==
    IF o = "enriched_prices" THEN {PlainException}
    ELSE {ApiException(404), ApiException(500), PlainException}

\* price_df.to_json(): floats are written with 10 decimal places
ToJson(df) == [i \in 1..Len(df) |-> (df[i] + 5) \div 10]
\* pd.read_json(price_df_json)
ReadJson(js) == [i \in 1..Len(js) |-> js[i] * 10]

\* what cache.write stores for a response
Stored(o, resp) == IF o = "enriched_prices" THEN ToJson(resp) ELSE resp

\* the except clauses around the provider call
ErrorFor(o, c, a) ==
    IF o = "enriched_prices" THEN NameError(a)
    ELSE IF c.class = "ApiException" THEN DataError(c, a)
    ELSE ValidationError(c, a)

\* the code after the cache block: the empty check and the return value
\* (the first: the empty-result error is given a cause with status 500)
Finish_with_server_cause(o, resp, a) ==
    IF ChecksEmpty(o) /\ Len(resp) = 0
    THEN Raise(DataError(ApiException(500), a))
    ELSE Ret(resp)
Finish(o, resp, a) ==
    IF ChecksEmpty(o) /\ Len(resp) = 0
    THEN Raise(DataError(NoCause, a))
    ELSE Ret(resp)

\* an operation that is not decorated ends: its caller gets out
Direct(p, out) ==
    /\ hist' = [hist EXCEPT ![p] = Append(@, out)]
    /\ outcome' = [outcome EXCEPT ![p] = out]
    /\ pc' = [pc EXCEPT ![p] = "done"]
    /\ UNCHANGED <<attempt, sleeps, latest_exception>>

\* the operation ends with out, inside wrapper() when it is decorated
Complete(p, out) == IF Wrapped(op[p]) THEN Wrapper(p, out) ELSE Direct(p, out)

\* the operation goes on at next
Continue(p, next) ==
    /\ pc' = [pc EXCEPT ![p] = next]
    /\ UNCHANGED callVars

NoPrev == [valid |-> FALSE, outcome |-> NoOutcome, attempts |-> 0, providerCalls |-> 0]

\* operation o is entered for ticker t: the state of a fresh invocation
Enter(p, o, t) ==
    /\ pc[p] \in {"idle", "done"}
    /\ calls < MaxCalls
    /\ calls' = calls + 1
    /\ prev' = [prev EXCEPT ![p] =
                    IF pc[p] = "done" /\ op[p] = o /\ ticker[p] = t
                    THEN [valid |-> TRUE, outcome |-> outcome[p],
                          attempts |-> Len(hist[p]), providerCalls |-> providerCalls[p]]
                    ELSE NoPrev]
    /\ op' = [op EXCEPT ![p] = o]
    /\ ticker' = [ticker EXCEPT ![p] = t]
    /\ pc' = [pc EXCEPT ![p] = StartPc(o)]
    /\ attempt' = [attempt EXCEPT ![p] = FirstAttempt(p)]
    /\ sleeps' = [sleeps EXCEPT ![p] = 0]
    /\ latest_exception' = [latest_exception EXCEPT ![p] = NoException]
    /\ api_response' = [api_response EXCEPT ![p] = NoneVal]
    /\ outcome' = [outcome EXCEPT ![p] = NoOutcome]
    /\ hist' = [hist EXCEPT ![p] = << >>]
    /\ cache0' = [cache0 EXCEPT ![p] = cache]
    /\ providerCalls' = [providerCalls EXCEPT ![p] = 0]
    /\ providerOk' = [providerOk EXCEPT ![p] = 0]
    /\ writes' = [writes EXCEPT ![p] = 0]
    /\ hit' = [hit EXCEPT ![p] = FALSE]
    /\ UNCHANGED <<cache, lastWrite, fetched, otherVars>>

\* a caller calls operation o for ticker t
Call(p, o, t) == Enter(p, o, t) /\ UNCHANGED callerVars

\* api_response = cache.read(cache_key), and on a hit the rest of the function
\* up to its next access to the cache
CacheRead(p) ==
    /\ pc[p] = "read"
    /\ LET r == cache_read(cache, Key(p)) IN
       /\ api_response' = [api_response EXCEPT ![p] = r]
       /\ hit' = [hit EXCEPT ![p] = ~r.isNone]
       /\ IF r.isNone THEN Continue(p, "fetch")
          ELSE IF op[p] = "enriched_prices"
               THEN Complete(p, Ret(ReadJson(r.v)))
          ELSE IF op[p] = "historical_data" /\ Len(r.v) # 0
               THEN Continue(p, "write")
          ELSE Complete(p, Finish(op[p], r.v, attempt[p]))
    /\ UNCHANGED <<cache, calls, op, ticker, cache0, providerCalls, providerOk,
                   writes, prev, lastWrite, fetched>>
    /\ UNCHANGED <<otherVars, callerVars>>

\* the provider call returns resp
ProviderReturns(p, resp) ==
    /\ api_response' = [api_response EXCEPT ![p] = Some(resp)]
    /\ providerOk' = [providerOk EXCEPT ![p] = @ + 1]
    /\ IF WritesInTry(op[p]) \/ Len(resp) # 0
       THEN Continue(p, "write")
       ELSE Complete(p, Finish(op[p], resp, attempt[p]))
    /\ fetched' = [fetched EXCEPT ![Key(p)] = @ \cup {resp}]
    /\ UNCHANGED <<cache, writes, lastWrite>>

\* the provider call raises an exception c (the first: cache.write in a
\* finally clause)
ProviderRaises_then_writes(p, c) ==
    /\ Complete(p, Raise(ErrorFor(op[p], c, attempt[p])))
    /\ cache' = [cache EXCEPT ![Key(p)] = api_response[p]]
    /\ writes' = [writes EXCEPT ![p] = @ + 1]
    /\ UNCHANGED <<api_response, providerOk, lastWrite, fetched>>
ProviderRaises(p, c) ==
    /\ Complete(p, Raise(ErrorFor(op[p], c, attempt[p])))
    /\ UNCHANGED <<cache, api_response, providerOk, writes, lastWrite, fetched>>

\* the call of the provider on a cache miss
Provider(p) ==
    /\ pc[p] = "fetch"
    /\ providerCalls' = [providerCalls EXCEPT ![p] = @ + 1]
    /\ \/ \E resp \in Responses(op[p]) : ProviderReturns(p, resp)
       \/ \E c \in ProviderErrors(op[p]) : ProviderRaises(p, c)
    /\ UNCHANGED <<calls, op, ticker, cache0, hit, prev>>
    /\ UNCHANGED <<otherVars, callerVars>>

\* cache.write(cache_key, api_response), and the rest of the function
CacheWrite(p) ==
    /\ pc[p] = "write"
    /\ cache' = cache_write(cache, Key(p), Stored(op[p], api_response[p].v))
    /\ writes' = [writes EXCEPT ![p] = @ + 1]
    /\ lastWrite' = [by |-> p, key |-> Key(p), value |-> Stored(op[p], api_response[p].v)]
    /\ Complete(p, Finish(op[p], api_response[p].v, attempt[p]))
    /\ UNCHANGED <<calls, op, ticker, api_response, cache0, providerCalls,
                   providerOk, hit, prev, fetched>>
    /\ UNCHANGED <<otherVars, callerVars>>

----------------------------------------------------------------------------
(* Cache keys (intrinio_data.py)

   A string is modelled as the sequence of its '-'-separated pieces, so that
   "A-B" is <<"A", "B">> and joining parts with '-' is concatenation. Two
   strings are equal exactly when their sequences of pieces are equal. *)

INTRINIO_CACHE_PREFIX == <<"intrinio">>

Pad2(n) == IF n < 10 THEN "0" \o ToString(n) ELSE ToString(n)

\* date.strftime("%Y-%m-%d")
date_to_string(d) == <<ToString(d.y), Pad2(d.m), Pad2(d.d)>>

\* s.replace('-', '')
RemoveDashes(s) ==
    LET RECURSIVE glue(_)
        glue(i) == IF i > Len(s) THEN "" ELSE s[i] \o glue(i + 1)
    IN  <<glue(1)>>

\* "%d" and "%d.%d.%d" of non-negative integers
FormatD(n) == <<ToString(n)>>
FormatDotted(a, b, c) == <<ToString(a) \o "." \o ToString(b) \o "." \o ToString(c)>>

\* ticker.upper(), on the pieces the model's tickers are made of
UpperPiece(x) ==
    CASE x = "aapl" -> "AAPL"
      [] x = "closing" -> "CLOSING"
      [] x = "company_data_point_number" -> "COMPANY_DATA_POINT_NUMBER"
      [] OTHER -> x
Upper(s) == [i \in 1..Len(s) |-> UpperPiece(s[i])]

ClosingPricesKey(q) ==
    INTRINIO_CACHE_PREFIX \o q.ticker \o RemoveDashes(date_to_string(q.start))
        \o RemoveDashes(date_to_string(q.end)) \o <<"closing", "prices">>

MacdKey(q) ==
    INTRINIO_CACHE_PREFIX \o q.ticker \o RemoveDashes(date_to_string(q.start))
        \o RemoveDashes(date_to_string(q.end))
        \o FormatDotted(q.nums[1], q.nums[2], q.nums[3]) \o <<"tech", "macd">>

SmaKey_without_period(q) ==
    INTRINIO_CACHE_PREFIX \o q.ticker \o RemoveDashes(date_to_string(q.start))
        \o RemoveDashes(date_to_string(q.end)) \o <<"tech", "sma">>

SmaKey(q) ==
    INTRINIO_CACHE_PREFIX \o q.ticker \o RemoveDashes(date_to_string(q.start))
        \o RemoveDashes(date_to_string(q.end)) \o FormatD(q.nums[1])
        \o <<"tech", "sma">>

\* one key per year of the range; q is the query of one year
StatementKey(q) ==
    INTRINIO_CACHE_PREFIX \o <<"statement">> \o Upper(q.ticker) \o q.tag
        \o <<"FY">> \o FormatD(q.nums[1])

DataPointKey(q) ==
    INTRINIO_CACHE_PREFIX \o <<"company_data_point_number">> \o q.ticker \o q.tag

HistoricalDataKey(q) ==
    INTRINIO_CACHE_PREFIX \o <<"company_historical_data">> \o q.ticker
        \o date_to_string(q.start) \o date_to_string(q.end) \o <<"yearly">> \o q.tag

CacheKey(q) ==
    CASE q.op = "closing_prices" -> ClosingPricesKey(q)
      [] q.op = "macd" -> MacdKey(q)
      [] q.op = "sma" -> SmaKey(q)
      [] q.op = "statement" -> StatementKey(q)
      [] q.op = "data_point" -> DataPointKey(q)
      [] q.op = "historical_data" -> HistoricalDataKey(q)

\* what a query asks the provider for: the statement functions upper-case the
\* ticker before they use it, the others pass it on as it is
Request(q) == IF q.op = "statement" THEN [q EXCEPT !.ticker = Upper(q.ticker)] ELSE q

\* the queries the keys are built for
Date(y, m, d) == [y |-> y, m |-> m, d |-> d]
NoDate == Date(0, 0, 0)
KeyTickers ==
    {<<"AAPL">>, <<"aapl">>, <<"A">>, <<"A", "B">>,
     <<"company_data_point_number", "X">>,
     <<"X", "20200101", "20200102", "closing">>}
KeyRanges ==
    {<<Date(2020, 1, 1), Date(2020, 1, 2)>>,
     <<Date(2020, 1, 12), Date(2020, 11, 2)>>,
     <<Date(2020, 11, 2), Date(2020, 1, 12)>>}
KeyTags == {<<"C">>, <<"B", "C">>, <<"prices">>}
StatementNames == {<<"income_statement">>, <<"cash_flow_statement">>}
SmaPeriods == {<<5>>, <<50>>}
MacdPeriods == {<<12, 26, 9>>, <<5, 35, 5>>}
StatementYears == {<<2018>>, <<2019>>}

Query(o, t, r, tag, nums) ==
    [op |-> o, ticker |-> t, start |-> r[1], end |-> r[2], tag |-> tag, nums |-> nums]
NoRange == <<NoDate, NoDate>>
Queries ==
    {Query("closing_prices", t, r, << >>, << >>) : t \in KeyTickers, r \in KeyRanges}
    \cup {Query("macd", t, r, << >>, n) : t \in KeyTickers, r \in KeyRanges, n \in MacdPeriods}
    \cup {Query("sma", t, r, << >>, n) : t \in KeyTickers, r \in KeyRanges, n \in SmaPeriods}
    \cup {Query("statement", t, NoRange, g, n) :
              t \in KeyTickers, g \in StatementNames, n \in StatementYears}
    \cup {Query("data_point", t, NoRange, g, << >>) : t \in KeyTickers, g \in KeyTags}
    \cup {Query("historical_data", t, r, g, << >>) :
              t \in KeyTickers, r \in KeyRanges, g \in KeyTags}

\* two queries are given
InitKeys == keyq \in Queries \X Queries /\ keyk = << >>

\* the key of each is built
BuildKeys ==
    /\ keyq # << >>
    /\ keyk = << >>
    /\ keyk' = <<CacheKey(keyq[1]), CacheKey(keyq[2])>>
    /\ UNCHANGED <<keyq, pipelineVars, aggVars, awsVars, callerVars>>

----------------------------------------------------------------------------
(* _aggregate_by_year and _aggregate_by_year_month (intrinio_data.py)

   A dictionary is a function on the set of its keys; the empty dictionary is
   << >>. The mean that sum(l) / len(l) computes is kept as the fraction in
   lowest terms. *)

MaxLen == 3

TypeError == [type |-> "TypeError", cause |-> NoCause, at |-> 0]
ZeroDivisionError == [type |-> "ZeroDivisionError", cause |-> NoCause, at |-> 0]

EmptyDict == << >>
\* d[k] = v
Put(d, k, v) == [x \in (DOMAIN d) \cup {k} |-> IF x = k THEN v ELSE d[x]]

\* converted_response[datapoint['date'].year] = datapoint['value']
YearStep_keep_first(conv, datapoint) ==
    IF datapoint.date.y \in DOMAIN conv THEN conv
    ELSE Put(conv, datapoint.date.y, datapoint.value)
YearStep(conv, datapoint) == Put(conv, datapoint.date.y, datapoint.value)

RECURSIVE YearLoop(_, _, _)
YearLoop(data, i, conv) ==
    IF i > Len(data) THEN conv
    ELSE YearLoop(data, i + 1, YearStep(conv, data[i]))

\* iterating over None raises TypeError
aggregate_by_year(historical_data_dict) ==
    IF historical_data_dict.isNone THEN Raise(TypeError)
    ELSE Ret(YearLoop(historical_data_dict.v, 1, EmptyDict))

\* first pass: the values of each year and month, in a list (the first: a
\* list keeps only its first value)
MonthStep_keep_first(conv, datapoint) ==
    LET year == datapoint.date.y
        month == datapoint.date.m
        c1 == IF year \in DOMAIN conv THEN conv ELSE Put(conv, year, EmptyDict)
    IN  IF month \in DOMAIN c1[year] THEN c1
        ELSE Put(c1, year, Put(c1[year], month, <<datapoint.value>>))
MonthStep(conv, datapoint) ==
    LET year == datapoint.date.y
        month == datapoint.date.m
        c1 == IF year \in DOMAIN conv THEN conv ELSE Put(conv, year, EmptyDict)
        c2 == IF month \in DOMAIN c1[year] THEN c1
              ELSE Put(c1, year, Put(c1[year], month, << >>))
    IN  Put(c2, year, Put(c2[year], month, Append(c2[year][month], datapoint.value)))

RECURSIVE MonthLoop(_, _, _)
MonthLoop(data, i, conv) ==
    IF i > Len(data) THEN conv
    ELSE MonthLoop(data, i + 1, MonthStep(conv, data[i]))

\* A value is a float (IEEE 754 binary64, 53 significant bits). The number
\* hi * 2^53 + lo, with hi and lo small non-negative integers, is the record
\* [hi, lo]; it is a float when lo is a multiple of the spacing of the floats
\* at hi * 2^53.
Float(hi, lo) == [hi |-> hi, lo |-> lo]

\* the spacing of the floats in [hi * 2^53, (hi + 1) * 2^53): 1 below 2^53,
\* 2 from 2^53, 4 from 2^54, ...
RECURSIVE Spacing(_)
Spacing(hi) == IF hi = 0 THEN 1 ELSE 2 * Spacing(hi \div 2)

\* the float nearest to the number x, ties to the even significand
FloatRound(x) ==
    LET sp == Spacing(x.hi)
        q == x.lo \div sp
        r == x.lo % sp
        up == \/ 2 * r > sp
              \/ 2 * r = sp /\ q % 2 = 1
    IN  Float(x.hi, (IF up THEN q + 1 ELSE q) * sp)

\* a + b of two floats
FloatAdd(a, b) == FloatRound(Float(a.hi + b.hi, a.lo + b.lo))

\* sum(l): the items are added to 0 from left to right, each addition rounded
RECURSIVE SumFrom(_, _, _)
SumFrom(l, i, acc) ==
    IF i > Len(l) THEN acc ELSE SumFrom(l, i + 1, FloatAdd(acc, l[i]))
Sum(l) == SumFrom(l, 1, Float(0, 0))

RECURSIVE Gcd(_, _)
Gcd(a, b) == IF b = 0 THEN a ELSE Gcd(b, a % b)

\* sum(l) / len(l), for a list that is not empty: the quotient is kept as the
\* fraction of the rounded sum and the length, in lowest terms below 2^53, so
\* that two means of lists of one length are equal exactly when the sums are
\* (the first: the integer quotient)
Mean_floor(l) == [num |-> Float(Sum(l).hi, Sum(l).lo \div Len(l)), den |-> 1]
Mean(l) ==
    LET sum == Sum(l)
        g == IF sum.hi = 0 THEN Gcd(sum.lo, Len(l)) ELSE 1
    IN  [num |-> Float(sum.hi, sum.lo \div g), den |-> Len(l) \div g]

\* second pass: every list is replaced by its average
Averages(conv) ==
    [year \in DOMAIN conv |-> [month \in DOMAIN conv[year] |-> Mean(conv[year][month])]]

aggregate_by_year_month_without_none_check(historical_data) ==
    IF historical_data.isNone THEN Raise(TypeError)
    ELSE Ret(Averages(MonthLoop(historical_data.v, 1, EmptyDict)))

aggregate_by_year_month(historical_data) ==
    IF historical_data.isNone THEN Ret(EmptyDict)
    ELSE LET conv == MonthLoop(historical_data.v, 1, EmptyDict)
         IN  IF \E year \in DOMAIN conv : \E month \in DOMAIN conv[year] :
                    Len(conv[year][month]) = 0
             THEN Raise(ZeroDivisionError)
             ELSE Ret(Averages(conv))

\* the historical data the functions are applied to
AggDates == {Date(2018, 9, 1), Date(2018, 9, 29), Date(2018, 10, 15), Date(2019, 9, 30)}
\* 1.0, 2.0 and 2.0 ** 53
AggValues == {Float(0, 1), Float(0, 2), Float(1, 0)}
Datapoints == {[date |-> d, value |-> v] : d \in AggDates, v \in AggValues}
SeqsUpTo(S, n) == UNION {[1..k -> S] : k \in 0..n}

InitAgg ==
    /\ series \in {NoneVal} \cup {Some(l) : l \in SeqsUpTo(Datapoints, MaxLen)}
    /\ aggOut = [fn |-> "none", out |-> NoOutcome]

AggregateByYear ==
    /\ aggOut.fn = "none"
    /\ aggOut' = [fn |-> "year", out |-> aggregate_by_year(series)]
    /\ UNCHANGED <<series, pipelineVars, keyVars, awsVars, callerVars>>

AggregateByYearMonth ==
    /\ aggOut.fn = "none"
    /\ aggOut' = [fn |-> "year_month", out |-> aggregate_by_year_month(series)]
    /\ UNCHANGED <<series, pipelineVars, keyVars, awsVars, callerVars>>

----------------------------------------------------------------------------
(* cf_list_exports (aws_service_wrapper.py) *)

MaxAwsCalls == 3

\* an ARN is the sequence of its ':'-separated elements, each the sequence of
\* its '/'-separated elements
\* arn:aws:cloudformation:region:acct:stack/<stack name>/<uuid>
StackArn(stack_name) ==
    <<<<"arn">>, <<"aws">>, <<"cloudformation">>, <<"region">>, <<"acct">>,
      <<"stack", stack_name, "uuid">>>>
ShortArn == <<<<"arn">>, <<"aws">>, <<"cloudformation">>>>

StackNames == {"app-infra-base", "app-infra-compute", "other-stack"}

Export(name, value, arn) == [Name |-> name, Value |-> value, ExportingStackId |-> arn]

\* the exports of the account, as the pages of list_exports give them
CfExports ==
    <<Export("export-name-1", "value1", StackArn("app-infra-base")),
      Export("export-name-2", "value2", StackArn("app-infra-compute")),
      Export("export-name-3", "value3", StackArn("other-stack"))>>

\* what paginating list_exports can give: the exports, the exports with one
\* whose stack id is not a stack ARN, or an exception of the client
ClientError == [class |-> "ClientError", hasStatus |-> FALSE, isInt |-> FALSE, status |-> 0]
ValidationCause ==
    [class |-> "ValidationError", hasStatus |-> FALSE, isInt |-> FALSE, status |-> 0]
AWSError(c) == [type |-> "AWSError", cause |-> c, at |-> 0]
CfAnswers ==
    {[raises |-> FALSE, exports |-> CfExports],
     [raises |-> FALSE, exports |-> Append(CfExports, Export("export-name-4", "value4", ShortArn))],
     [raises |-> TRUE, exports |-> << >>]}

\* arn.split(':')[5].split('/')[1]; an IndexError becomes a ValidationError
get_stackname_from_stackarn(arn) ==
    IF Len(arn) >= 6 /\ Len(arn[6]) >= 2
    THEN [raises |-> FALSE, name |-> arn[6][2]]
    ELSE [raises |-> TRUE, name |-> ""]

\* the stack_name_filter argument: None or a list of stack names
NoFilter == [isNone |-> TRUE, v |-> {}]
Filters == {NoFilter} \cup {[isNone |-> FALSE, v |-> S] : S \in SUBSET StackNames}

RECURSIVE ExportLoop(_, _, _, _)
ExportLoop(exports, i, stack_name_filter, return_dict) ==
    IF i > Len(exports) THEN Ret(return_dict)
    ELSE LET stack == get_stackname_from_stackarn(exports[i].ExportingStackId)
         IN  IF stack.raises THEN Raise(AWSError(ValidationCause))
             ELSE ExportLoop(exports, i + 1, stack_name_filter,
                      IF stack.name \in stack_name_filter
                      THEN Put(return_dict, exports[i].Name, exports[i].Value)
                      ELSE return_dict)

\* the lookup of the exports when aws_response_cache has none
LookupExports(answer, stack_name_filter) ==
    IF answer.raises THEN Raise(AWSError(ClientError))
    ELSE ExportLoop(answer.exports, 1, stack_name_filter, EmptyDict)

\* lookups are the CloudFormation requests of the latest call, requests those
\* of all calls
NoAwsCall ==
    [filter |-> NoFilter, out |-> NoOutcome, lookups |-> 0, n |-> 0, requests |-> 0]

\* aws_response_cache[key_name] = return_dict is the last statement of the
\* try block (the first: in a finally clause, with what return_dict has by then)
StoreExports_finally(cached, out) ==
    Some(IF out.kind = "return" THEN out.value ELSE EmptyDict)
StoreExports(cached, out) == IF out.kind = "return" THEN Some(out.value) ELSE cached

\* aws_response_cache has the one key 'get_stackname_from_stackarn', whatever
\* the filter: it is the value of that key, or None without it
cf_list_exports(f, answer) ==
    LET stack_name_filter == IF f.isNone THEN {} ELSE f.v
        cached == aws_response_cache
        out == LookupExports(answer, stack_name_filter)
    IN  /\ awsCall.n < MaxAwsCalls
        /\ IF ~cached.isNone
           THEN /\ awsCall' = [filter |-> f, out |-> Ret(cached.v), lookups |-> 0,
                               n |-> awsCall.n + 1, requests |-> awsCall.requests]
                /\ UNCHANGED aws_response_cache
           ELSE /\ awsCall' = [filter |-> f, out |-> out, lookups |-> 1,
                               n |-> awsCall.n + 1, requests |-> awsCall.requests + 1]
                /\ aws_response_cache' = StoreExports(aws_response_cache, out)
        /\ UNCHANGED <<pipelineVars, keyVars, aggVars, callerVars>>

CfListExports == \E f \in Filters, answer \in CfAnswers : cf_list_exports(f, answer)

----------------------------------------------------------------------------
(* PricingSvc (services/pricing_svc.py) *)

\* no method of PricingSvc has been called; before is pricing_dict as the
\* method in progress found it
NoSvc ==
    [pc |-> "idle", method |-> "none", ticker |-> "none", out |-> NoOutcome,
     before |-> [t \in Tickers |-> NoneVal]]

\* cls.pricing_dict[ticker_symbol] = <frame> (the first: a new dictionary
\* with that one entry)
StoreFrame_alone(d, t, df) == [x \in Tickers |-> IF x = t THEN Some(df) ELSE NoneVal]
StoreFrame(d, t, df) == [d EXCEPT ![t] = Some(df)]

\* pricing_dict when get_enriched_prices raises: the right side of the
\* assignment raises before the item is stored (the first: the entry of the
\* ticker is dropped)
FailedStore_drops_entry(d, t) == [d EXCEPT ![t] = NoneVal]
FailedStore(d, t) == d

\* load_financial_data(ticker_symbol, price_start, price_end) calls
\* yfinance.get_enriched_prices
load_financial_data(p, t, r) ==
    /\ svc.pc # "loading"
    /\ Enter(p, "enriched_prices", PricesQuery(t, r))
    /\ svc' = [pc |-> "loading", method |-> "load", ticker |-> t, out |-> NoOutcome,
               before |-> pricing_dict]
    /\ UNCHANGED <<pricing_dict, lastLoaded, lcp, stmt>>

\* get_enriched_prices has ended: its frame is stored and the whole
\* pricing_dict is returned, or its exception leaves load_financial_data
LoadEnds(p) ==
    /\ svc.pc = "loading"
    /\ pc[p] = "done"
    /\ IF outcome[p].kind = "return"
       THEN /\ pricing_dict' = StoreFrame(pricing_dict, svc.ticker, outcome[p].value)
            /\ lastLoaded' = [lastLoaded EXCEPT ![svc.ticker] = Some(outcome[p].value)]
            /\ svc' = [svc EXCEPT !.pc = "done", !.out = Ret(pricing_dict')]
       ELSE /\ svc' = [svc EXCEPT !.pc = "done", !.out = outcome[p]]
            /\ pricing_dict' = FailedStore(pricing_dict, svc.ticker)
            /\ UNCHANGED lastLoaded
    /\ UNCHANGED <<pipelineVars, otherVars, lcp, stmt>>

\* return cls.pricing_dict.get(ticker_symbol, None)
get_pricing_dataframe(t) ==
    /\ svc.pc # "loading"
    /\ svc' = [pc |-> "done", method |-> "get", ticker |-> t,
               out |-> Ret(pricing_dict[t]), before |-> pricing_dict]
    /\ UNCHANGED <<pricing_dict, lastLoaded, pipelineVars, otherVars, lcp, stmt>>

----------------------------------------------------------------------------
(* get_latest_close_price (intrinio_data.py) *)

NoLcp == [pc |-> "idle", max_looback |-> 0, rejected |-> FALSE, out |-> NoOutcome]

\* the max_looback arguments tried
Lookbacks == {0, 1, 9, 10, 11}

\* max_looback in range(1, 10)
InLookbackRange(max_looback) == max_looback \in 1..9

\* an item x of stock_prices is the price of day x, with close 100 + x; the
\* keys of price_dict are the dates as YYYY-MM-DD strings, which sort as the
\* days do
PriceDate(x) == x
PriceClose(x) == 100 + x

\* price_dict of get_daily_stock_close_prices: date => close of the price list
PriceDict(price_list) ==
    LET RECURSIVE fill(_, _)
        fill(i, d) == IF i > Len(price_list) THEN d
                      ELSE fill(i + 1, Put(d, PriceDate(price_list[i]),
                                           PriceClose(price_list[i])))
    IN  fill(1, EmptyDict)

\* sorted(list(price_dict.keys()), reverse=True)[0] and its price (the first:
\* sorted without reverse=True)
LatestPrice_ascending(price_dict) ==
    LET price_date == CHOOSE d \in DOMAIN price_dict : \A e \in DOMAIN price_dict : d <= e
    IN  <<price_date, price_dict[price_date]>>
LatestPrice(price_dict) ==
    LET price_date == CHOOSE d \in DOMAIN price_dict : \A e \in DOMAIN price_dict : e <= d
    IN  <<price_date, price_dict[price_date]>>

\* the check of max_looback, and the call of get_daily_stock_close_prices
get_latest_close_price(p, t, max_looback) ==
    /\ lcp.pc # "calling"
    /\ IF ~InLookbackRange(max_looback)
       THEN /\ lcp' = [pc |-> "done", max_looback |-> max_looback, rejected |-> TRUE,
                       out |-> Raise(ValidationError(NoCause, 0))]
            /\ UNCHANGED <<pipelineVars, otherVars>>
       ELSE /\ Enter(p, "closing_prices", t)
            /\ lcp' = [pc |-> "calling", max_looback |-> max_looback,
                       rejected |-> FALSE, out |-> NoOutcome]
    /\ UNCHANGED <<pricingVars, stmt>>

\* get_daily_stock_close_prices has ended: its exception leaves the function,
\* or the latest date of its prices is looked up
LatestEnds(p) ==
    /\ lcp.pc = "calling"
    /\ pc[p] = "done"
    /\ lcp' = [lcp EXCEPT !.pc = "done",
                          !.out = IF outcome[p].kind = "return"
                                  THEN Ret(LatestPrice(PriceDict(outcome[p].value)))
                                  ELSE outcome[p]]
    /\ UNCHANGED <<pipelineVars, otherVars, pricingVars, stmt>>

----------------------------------------------------------------------------
(* _read_historical_financial_statement (intrinio_data.py) *)

\* an exception that is not a DataError and has no cause
OtherException(a) == [type |-> "Exception", cause |-> NoCause, at |-> a]

\* what the provider can answer: the standardized_financials of a statement
Statements == {<<1>>, <<1, 2>>}

\* an item x of standardized_financials has data tag x and value x
FinTag(x) == x
FinValue(x) == x

\* tag_filter_list: None, or a list of tags
TagFilters == {[isNone |-> TRUE, v |-> {}], [isNone |-> FALSE, v |-> {1}]}

\* _transform_financial_stmt(std_financials_list, tag_filter_list)
transform_financial_stmt(std_financials_list, tag_filter_list) ==
    LET RECURSIVE fill(_, _)
        fill(n, results) ==
            IF n > Len(std_financials_list) THEN results
            ELSE LET financial == std_financials_list[n] IN
                 IF tag_filter_list.isNone \/ FinTag(financial) \in tag_filter_list.v
                 THEN fill(n + 1, Put(results, FinTag(financial), FinValue(financial)))
                 ELSE fill(n + 1, results)
    IN  fill(1, EmptyDict)

\* cache_key of year i (the first: without the year)
YearKey_without_year(t, i) == <<"statement_" \o ToString(2018), t>>
YearKey(t, i) == <<"statement_" \o ToString(i), t>>

NoStmt ==
    [year_from |-> 0, year_to |-> 0, filter |-> [isNone |-> TRUE, v |-> {}], i |-> 0,
     hist_statements |-> EmptyDict, got |-> [y \in StmtYears |-> << >>], hits |-> {}]

\* the function is called: wrapper() starts
read_historical_financial_statement(p, t, year_from, year_to, tag_filter_list) ==
    /\ Enter(p, "statement", t)
    /\ stmt' = [stmt EXCEPT ![p] =
                    [NoStmt EXCEPT !.year_from = year_from, !.year_to = year_to,
                                   !.filter = tag_filter_list, !.i = year_from]]
    /\ UNCHANGED <<pricingVars, lcp>>

\* an attempt starts: hist_statements = {} and the first year of the range
StmtBegin(p) ==
    /\ pc[p] = "begin"
    /\ stmt' = [stmt EXCEPT ![p].i = stmt[p].year_from,
                            ![p].hist_statements = EmptyDict, ![p].hits = {}]
    /\ IF stmt[p].year_from > stmt[p].year_to
       THEN Complete(p, Ret(EmptyDict))
       ELSE Continue(p, "stmt_read")
    /\ UNCHANGED <<cache, calls, op, ticker, api_response, cache0, providerCalls,
                   providerOk, writes, hit, prev, lastWrite, fetched>>
    /\ UNCHANGED <<otherVars, pricingVars, lcp>>

\* hist_statements[i] = _transform_financial_stmt(...), then the next year, or
\* return hist_statements after the last; read tells a statement from the cache
StmtAdvance(p, statement, read) ==
    LET i == stmt[p].i
        hs == Put(stmt[p].hist_statements, i,
                  transform_financial_stmt(statement, stmt[p].filter))
    IN  /\ stmt' = [stmt EXCEPT ![p].i = i + 1, ![p].hist_statements = hs,
                                ![p].hits = IF read THEN @ \cup {i} ELSE @]
        /\ IF i = stmt[p].year_to
           THEN Complete(p, Ret(hs))
           ELSE Continue(p, "stmt_read")

\* statement = cache.read(cache_key)
StmtRead(p) ==
    /\ pc[p] = "stmt_read"
    /\ LET r == cache_read(cache, YearKey(ticker[p], stmt[p].i)) IN
       /\ api_response' = [api_response EXCEPT ![p] = r]
       /\ hit' = [hit EXCEPT ![p] = ~r.isNone]
       /\ IF r.isNone
          THEN Continue(p, "stmt_fetch") /\ UNCHANGED stmt
          ELSE StmtAdvance(p, r.v, TRUE)
    /\ UNCHANGED <<cache, calls, op, ticker, cache0, providerCalls, providerOk,
                   writes, prev, lastWrite, fetched>>
    /\ UNCHANGED <<otherVars, pricingVars, lcp>>

\* FUNDAMENTALS_API.get_fundamental_standardized_financials(satement_name):
\* it returns a statement, or raises; an ApiException becomes a DataError,
\* any other exception leaves the function as it is
StmtFetch(p) ==
    /\ pc[p] = "stmt_fetch"
    /\ providerCalls' = [providerCalls EXCEPT ![p] = @ + 1]
    /\ \/ \E s \in Statements :
            /\ api_response' = [api_response EXCEPT ![p] = Some(s)]
            /\ providerOk' = [providerOk EXCEPT ![p] = @ + 1]
            /\ fetched' = [fetched EXCEPT ![YearKey(ticker[p], stmt[p].i)] = @ \cup {s}]
            /\ stmt' = [stmt EXCEPT ![p].got[stmt[p].i] = Append(@, s)]
            /\ Continue(p, "stmt_write")
       \/ \E c \in {ApiException(404), ApiException(500), PlainException} :
            /\ Complete(p, Raise(IF c.class = "ApiException"
                                 THEN DataError(c, attempt[p])
                                 ELSE OtherException(attempt[p])))
            /\ UNCHANGED <<api_response, providerOk, fetched, stmt>>
    /\ UNCHANGED <<cache, calls, op, ticker, cache0, writes, hit, prev, lastWrite>>
    /\ UNCHANGED <<otherVars, pricingVars, lcp>>

\* cache.write(cache_key, statement)
StmtWrite(p) ==
    /\ pc[p] = "stmt_write"
    /\ LET k == YearKey(ticker[p], stmt[p].i) IN
       /\ cache' = cache_write(cache, k, api_response[p].v)
       /\ lastWrite' = [by |-> p, key |-> k, value |-> api_response[p].v]
    /\ writes' = [writes EXCEPT ![p] = @ + 1]
    /\ StmtAdvance(p, api_response[p].v, FALSE)
    /\ UNCHANGED <<calls, op, ticker, api_response, cache0, providerCalls,
                   providerOk, hit, prev, fetched>>
    /\ UNCHANGED <<otherVars, pricingVars, lcp>>

----------------------------------------------------------------------------
(* Specifications *)

\* the pipeline before any call
InitPipeline ==
    /\ cache = [k \in Keys |-> NoneVal]
    /\ calls = 0
    /\ pc = [p \in Callers |-> "idle"]
    /\ op = [p \in Callers |-> "none"]
    /\ ticker = [p \in Callers |-> "none"]
    /\ attempt = [p \in Callers |-> 0]
    /\ sleeps = [p \in Callers |-> 0]
    /\ latest_exception = [p \in Callers |-> NoException]
    /\ api_response = [p \in Callers |-> NoneVal]
    /\ outcome = [p \in Callers |-> NoOutcome]
    /\ hist = [p \in Callers |-> << >>]
    /\ cache0 = [p \in Callers |-> [k \in Keys |-> NoneVal]]
    /\ providerCalls = [p \in Callers |-> 0]
    /\ providerOk = [p \in Callers |-> 0]
    /\ writes = [p \in Callers |-> 0]
    /\ hit = [p \in Callers |-> FALSE]
    /\ prev = [p \in Callers |-> NoPrev]
    /\ lastWrite = [by |-> "none", key |-> <<"none", "none">>, value |-> << >>]
    /\ fetched = [k \in Keys |-> {}]

\* the other components, not in use
IdleKeys == keyq = << >> /\ keyk = << >>
IdleAgg == series = NoneVal /\ aggOut = [fn |-> "none", out |-> NoOutcome]
IdleAws == aws_response_cache = NoneVal /\ awsCall = NoAwsCall
IdlePricing ==
    /\ pricing_dict = [t \in Tickers |-> NoneVal]
    /\ lastLoaded = [t \in Tickers |-> NoneVal]
    /\ svc = NoSvc

IdleLatest == lcp = NoLcp

IdleStatement == stmt = [p \in Callers |-> NoStmt]

Init == InitPipeline /\ IdleKeys /\ IdleAgg /\ IdleAws /\ IdlePricing /\ IdleLatest /\ IdleStatement

\* one caller of a decorated function
NextRetry == CallFunc("c1") \/ RunFunc("c1") \/ Sleep("c1")

SpecRetry == Init /\ [][NextRetry]_vars

\* every attempt of func ends and every time.sleep(2) returns
SpecRetryFair ==
    SpecRetry /\ WF_vars(RunFunc("c1")) /\ WF_vars(Sleep("c1"))

\* one caller of the cached operations
Next ==
    \/ \E o \in Ops, t \in Tickers : Call("c1", o, t)
    \/ CacheRead("c1")
    \/ Provider("c1")
    \/ CacheWrite("c1")
    \/ Sleep("c1")

Spec == Init /\ [][Next]_vars

\* two callers of one cached operation on one key
CallSame(p) ==
    \E o \in Ops :
        /\ \A q \in Callers : op[q] \in {"none", o}
        /\ Call(p, o, "AAPL")

NextConc ==
    \/ \E p \in Callers : CallSame(p)
    \/ \E p \in Callers : CacheRead(p)
    \/ \E p \in Callers : Provider(p)
    \/ \E p \in Callers : CacheWrite(p)
    \/ \E p \in Callers : Sleep(p)

SpecConc == Init /\ [][NextConc]_vars

\* one caller of _read_historical_financial_statement
NextStatement ==
    \/ \E t \in Tickers, year_from \in StmtYears, year_to \in StmtYears, f \in TagFilters :
            read_historical_financial_statement("c1", t, year_from, year_to, f)
    \/ StmtBegin("c1")
    \/ StmtRead("c1")
    \/ StmtFetch("c1")
    \/ StmtWrite("c1")
    \/ Sleep("c1")

SpecStatement == Init /\ [][NextStatement]_vars

\* the aggregation functions applied to given historical data
NextAgg == AggregateByYear \/ AggregateByYearMonth

AggInit ==
    InitPipeline /\ IdleKeys /\ InitAgg /\ IdleAws /\ IdlePricing /\ IdleLatest /\ IdleStatement

SpecAgg == AggInit /\ [][NextAgg]_vars

\* calls of cf_list_exports
NextAws == CfListExports

SpecAws == Init /\ [][NextAws]_vars

\* one caller of PricingSvc
NextPricing ==
    \/ \E t \in Tickers, r \in PriceRanges : load_financial_data("c1", t, r)
    \/ CacheRead("c1")
    \/ Provider("c1")
    \/ CacheWrite("c1")
    \/ LoadEnds("c1")
    \/ \E t \in Tickers : get_pricing_dataframe(t)

SpecPricing == Init /\ [][NextPricing]_vars

\* one caller of get_latest_close_price
NextLatest ==
    \/ \E t \in Tickers, m \in Lookbacks : get_latest_close_price("c1", t, m)
    \/ CacheRead("c1")
    \/ Provider("c1")
    \/ CacheWrite("c1")
    \/ Sleep("c1")
    \/ LatestEnds("c1")

SpecLatest == Init /\ [][NextLatest]_vars

\* the keys of two queries
NextKeys == BuildKeys

KeysInit ==
    InitPipeline /\ InitKeys /\ IdleAgg /\ IdleAws /\ IdlePricing /\ IdleLatest /\ IdleStatement

SpecKeys == KeysInit /\ [][NextKeys]_vars

----------------------------------------------------------------------------
(* Properties of retry_server_errors *)

\* the kinds of attempt outcome the claims speak of, in the claims' own terms
IsDataError(out) == out.kind = "raise" /\ out.exc.type = "DataError"
HasIntStatus(out) ==
    IsDataError(out) /\ out.exc.cause.class # "None" /\ out.exc.cause.hasStatus
        /\ out.exc.cause.isInt
FailsServerSide(out) == HasIntStatus(out) /\ out.exc.cause.status >= 500
FailsClientSide(out) == HasIntStatus(out) /\ out.exc.cause.status < 500
FailsUnclassified(out) == IsDataError(out) /\ ~HasIntStatus(out)
FailsOtherwise(out) == out.kind = "raise" /\ out.exc.type # "DataError"

AllServerSide(h, n) == \A i \in 1..n : FailsServerSide(h[i])

\* C3: when every attempt fails with a DataError whose cause has an integer
\* status >= 500, the wrapper makes exactly 5 attempts and then raises the
\* error of the 5th attempt itself.
C3_ExhaustRaisesLast ==
    \A p \in Callers :
        (pc[p] = "done" /\ Len(hist[p]) > 0 /\ AllServerSide(hist[p], Len(hist[p])))
            => /\ Len(hist[p]) = 5
               /\ attempt[p] = 5
               /\ outcome[p] = Raise(hist[p][5].exc)
               /\ outcome[p].exc.at = 5

C3_Witness ==
    \E p \in Callers :
        /\ pc[p] = "done" /\ Len(hist[p]) = 5 /\ AllServerSide(hist[p], 5)
        /\ outcome[p].kind = "raise"
        /\ hist[p][4].exc.cause.status # hist[p][5].exc.cause.status

\* C4: when the first k attempts (k in 0..4) fail with a status >= 500 and
\* attempt k+1 succeeds, the wrapper returns the value of attempt k+1 after
\* exactly k+1 attempts and k sleeps, and the caller sees no error.
C4_SuccessAfterRetries ==
    \A p \in Callers : \A k \in 0..4 :
        (/\ pc[p] = "done" /\ Len(hist[p]) = k + 1
         /\ AllServerSide(hist[p], k) /\ hist[p][k + 1].kind = "return")
            => /\ outcome[p] = Ret(hist[p][k + 1].value)
               /\ attempt[p] = k + 1
               /\ sleeps[p] = k

C4_Witness ==
    \E p \in Callers :
        /\ pc[p] = "done" /\ Len(hist[p]) = 5 /\ AllServerSide(hist[p], 4)
        /\ hist[p][5].kind = "return" /\ sleeps[p] = 4

\* C5: an attempt that fails with an integer status < 500 is the last one:
\* no sleep follows it and its error is raised (one attempt and no sleep when
\* it is the first); 499 is permanent, while after a failure with status 500
\* the wrapper sleeps and, when attempts are left, tries again.
C5_ClientErrorStops ==
    \A p \in Callers : \A i \in 1..Len(hist[p]) :
        /\ FailsClientSide(hist[p][i])
            => /\ i = Len(hist[p]) /\ pc[p] = "done"
               /\ outcome[p] = Raise(hist[p][i].exc)
               /\ attempt[p] = i /\ sleeps[p] = i - 1
        /\ (FailsServerSide(hist[p][i]) /\ i = Len(hist[p]))
            => \/ pc[p] = "sleep" /\ sleeps[p] = i - 1
               \/ pc[p] # "done" /\ attempt[p] = i + 1 /\ sleeps[p] = i
               \/ pc[p] = "done" /\ i = 5

C5_Witness ==
    \E p \in Callers :
        /\ pc[p] = "done" /\ Len(hist[p]) = 3
        /\ HasIntStatus(hist[p][3]) /\ hist[p][3].exc.cause.status = 499
        /\ HasIntStatus(hist[p][1]) /\ hist[p][1].exc.cause.status = 500

\* C6: an attempt that fails with a DataError whose cause is absent, has no
\* status attribute or has a status that is not an integer is the last one:
\* that same error is raised, with no sleep and no further attempt.
C6_UnclassifiedStops ==
    \A p \in Callers : \A i \in 1..Len(hist[p]) :
        FailsUnclassified(hist[p][i])
            => /\ i = Len(hist[p]) /\ pc[p] = "done"
               /\ outcome[p] = Raise(hist[p][i].exc)
               /\ attempt[p] = i /\ sleeps[p] = i - 1

C6_Witness ==
    \E p \in Callers :
        /\ pc[p] = "done" /\ Len(hist[p]) = 2
        /\ FailsUnclassified(hist[p][2]) /\ hist[p][2].exc.cause.hasStatus

\* C7 as stated: an error that is not a DataError reaches the caller as the
\* same error after exactly one attempt, with no sleep and no classification.
C7_Original ==
    \A p \in Callers : \A i \in 1..Len(hist[p]) :
        FailsOtherwise(hist[p][i])
            => /\ pc[p] = "done" /\ outcome[p] = hist[p][i]
               /\ Len(hist[p]) = 1 /\ attempt[p] = 1 /\ sleeps[p] = 0
               /\ latest_exception[p] # hist[p][i].exc

\* C7 as amended: an error that is not a DataError reaches the caller as the
\* same error from the attempt that raised it: no further attempt, no sleep
\* after it and no classification (latest_exception is not set to it); when
\* the first attempt raises it there is exactly one attempt and no sleep.
C7_OtherErrorPropagates ==
    \A p \in Callers : \A i \in 1..Len(hist[p]) :
        FailsOtherwise(hist[p][i])
            => /\ i = Len(hist[p]) /\ pc[p] = "done"
               /\ outcome[p] = hist[p][i]
               /\ attempt[p] = i /\ sleeps[p] = i - 1
               /\ latest_exception[p] # hist[p][i].exc

C7_Witness ==
    \E p \in Callers :
        /\ pc[p] = "done" /\ Len(hist[p]) = 1 /\ FailsOtherwise(hist[p][1])
        /\ hist[p][1].exc.cause.hasStatus /\ sleeps[p] = 0

\* C8: in every run of the wrapper the number of back-off sleeps is at most
\* maxAttempts - 1 = 4: no sleep follows the last allowed attempt.
C8_AtMostFourSleeps ==
    \A p \in Callers : sleeps[p] <= 4

----------------------------------------------------------------------------
(* Properties of the cached operations *)

\* the data an operation returns from a stored response
DataOfStored(o, stored) == IF o = "enriched_prices" THEN ReadJson(stored) ELSE stored

\* C1: a provider call that succeeds with an empty result list is followed by
\* no cache.write for the key, so the cache never holds an empty response.
C1_NoEmptyResponseCached ==
    /\ \A k \in Keys : cache[k].isNone \/ Len(cache[k].v) > 0
    /\ \A p \in Callers :
           (~api_response[p].isNone /\ Len(api_response[p].v) = 0 /\ ~hit[p])
               => pc[p] # "write" /\ writes[p] = 0

\* C2: of two successive calls with the same key, when the first one returned
\* the provider's non-empty result, the second is a cache hit that invokes no
\* provider and returns the same data; when no provider call failed, the
\* provider is invoked at most once over the two calls.
C2_SecondCallHits ==
    \A p \in Callers :
        (pc[p] = "done" /\ prev[p].valid /\ prev[p].outcome.kind = "return")
            => /\ hit[p] /\ providerCalls[p] = 0
               /\ outcome[p] = prev[p].outcome
               /\ prev[p].attempts = 1 => prev[p].providerCalls + providerCalls[p] <= 1

\* C9: on a cache hit the operation returns the data of the cached response
\* without a provider call, a retry or a sleep.
C9_HitReturnsCached ==
    \A p \in Callers :
        (pc[p] = "done" /\ op[p] \in Ops /\ ~cache0[p][Key(p)].isNone)
            => /\ outcome[p] = Ret(DataOfStored(op[p], cache0[p][Key(p)].v))
               /\ providerCalls[p] = 0 /\ sleeps[p] = 0 /\ attempt[p] = 1

\* C10: when the provider call raises in every attempt of a call, the call
\* performs no cache.write and leaves the cache as it found it.
C10_FailedFetchKeepsCache ==
    \A p \in Callers :
        (pc[p] \in {"done", "sleep"} /\ providerCalls[p] > 0 /\ providerOk[p] = 0)
            => writes[p] = 0 /\ cache = cache0[p]

C10_Witness ==
    \E p \in Callers :
        /\ pc[p] = "done" /\ providerCalls[p] = 5 /\ providerOk[p] = 0
        /\ outcome[p].kind = "raise" /\ calls = 2
        /\ \E k \in Keys : ~cache[k].isNone

----------------------------------------------------------------------------
(* Properties of the cache keys *)

KeysBuilt == keyk # << >>

\* no part of the query that the caller chooses contains a '-'
DashFree(q) == Len(q.ticker) = 1 /\ Len(q.tag) <= 1

\* C11 as stated: two queries that differ in the operation, the ticker, the
\* start date, the end date or the operation's extra parameter never get the
\* same cache key, also when a ticker contains '-'
C11_Original ==
    (KeysBuilt /\ keyq[1] # keyq[2]) => keyk[1] # keyk[2]

\* C11: two queries whose tickers and tags contain no '-' and that ask the
\* provider for different things (the statement operation upper-cases its
\* ticker) never get the same cache key
C11_DashFreeKeysDistinct ==
    (KeysBuilt /\ DashFree(keyq[1]) /\ DashFree(keyq[2])
        /\ Request(keyq[1]) # Request(keyq[2]))
    => keyk[1] # keyk[2]

C11_Witness ==
    /\ KeysBuilt
    /\ DashFree(keyq[1]) /\ DashFree(keyq[2])
    /\ keyq[1].op = "sma" /\ keyq[2].op = "sma"
    /\ keyq[1].ticker = keyq[2].ticker
    /\ keyq[1].start = keyq[2].start /\ keyq[1].end = keyq[2].end
    /\ keyq[1].nums # keyq[2].nums
    /\ keyk[1] # keyk[2]

----------------------------------------------------------------------------
(* Properties of concurrent callers *)

BothDone == \A p \in Callers : pc[p] = "done"

\* C13: two callers run the same cached operation on the same key, starting
\* from an empty cache. When both have ended, the cache holds what the last
\* cache.write wrote, a caller that returns gives the data of a response the
\* provider returned for the key, and a caller that raises does so after a
\* provider call of its own (its last read of the cache was a miss).
C13_RaceIsHarmless ==
    BothDone =>
        /\ lastWrite.by # "none" => cache[lastWrite.key] = Some(lastWrite.value)
        /\ lastWrite.by = "none" => \A k \in Keys : cache[k].isNone
        /\ \A p \in Callers :
               /\ outcome[p].kind = "return" => outcome[p].value \in fetched[Key(p)]
               /\ outcome[p].kind = "raise" => ~hit[p]

----------------------------------------------------------------------------
(* Properties of the aggregation functions *)

Applied(fn) == aggOut.fn = fn /\ ~series.isNone
Years(data) == {data[i].date.y : i \in 1..Len(data)}
InYear(data, y) == {i \in 1..Len(data) : data[i].date.y = y}
InMonth(data, y, m) == {i \in 1..Len(data) : data[i].date.y = y /\ data[i].date.m = m}
Max(S) == CHOOSE i \in S : \A j \in S : j <= i
Earlier(a, b) ==
    \/ a.y < b.y
    \/ a.y = b.y /\ a.m < b.m
    \/ a.y = b.y /\ a.m = b.m /\ a.d < b.d
\* the sum of the values of data at the indices S, added in input order
RECURSIVE SumOver(_, _)
SumOver(data, S) ==
    IF S = {} THEN Float(0, 0)
    ELSE FloatAdd(SumOver(data, S \ {Max(S)}), data[Max(S)].value)
\* k * x, of a number x
Times(x, k) == Float(x.hi * k, x.lo * k)

C15_LatestDateWins ==
    Applied("year") =>
        /\ aggOut.out.kind = "return"
        /\ \A y \in Years(series.v) : \A i \in InYear(series.v, y) :
               (\A j \in InYear(series.v, y) \ {i} :
                    Earlier(series.v[j].date, series.v[i].date))
               => aggOut.out.value[y] = series.v[i].value

C17_EmptyInput ==
    (aggOut.fn = "year_month" /\ (series.isNone \/ Len(series.v) = 0))
    => aggOut.out = Ret(EmptyDict)

C17_Witness ==
    /\ aggOut.fn = "year_month"
    /\ series.isNone
    /\ aggOut.out.kind = "return"
    /\ DOMAIN aggOut.out.value = {}

----------------------------------------------------------------------------
(* Properties of cf_list_exports *)

\* the exports of the account whose stack is one of the given stacks
ExportsOfStacks(S) ==
    LET I == {i \in 1..Len(CfExports) : CfExports[i].ExportingStackId[6][2] \in S}
    IN  [name \in {CfExports[i].Name : i \in I} |->
            (CHOOSE e \in {CfExports[i] : i \in I} : e.Name = name).Value]

\* C18: a call of cf_list_exports that returns gives exactly the exports
\* whose stack name is in the filter of that call, whatever earlier calls
\* were given
C18_FilterOfThisCall ==
    awsCall.out.kind = "return" => awsCall.out.value = ExportsOfStacks(awsCall.filter.v)

----------------------------------------------------------------------------
(* Properties of successive calls of a decorated function *)

\* the preceding call of the caller made all 5 attempts and raised
PrevExhausted(p) ==
    prev[p].valid /\ prev[p].attempts = num_retries /\ prev[p].outcome.kind = "raise"

\* C19: the wrapper keeps nothing between calls. A call that follows one that
\* made all 5 attempts and raised starts at attempt 1 again: it returns what
\* its first success returns, and when all of its own attempts fail with a
\* status >= 500 it makes 5 attempts and raises the error of its 5th.
C19_FreshBudget ==
    \A p \in Callers :
        (op[p] = "func" /\ PrevExhausted(p)) =>
            /\ attempt[p] \in 1..num_retries
            /\ pc[p] = "run" => Len(hist[p]) = attempt[p] - 1
            /\ pc[p] = "sleep" => Len(hist[p]) = attempt[p]
            /\ sleeps[p] <= Len(hist[p])
            /\ \A i \in 1..Len(hist[p]) : hist[p][i].exc.at \in {0, i}
            /\ pc[p] = "done" =>
                   /\ Len(hist[p]) = attempt[p]
                   /\ AllServerSide(hist[p], Len(hist[p]) - 1)
                   /\ AllServerSide(hist[p], Len(hist[p])) =>
                          Len(hist[p]) = num_retries
                   /\ outcome[p] = hist[p][Len(hist[p])]

C19_Witness ==
    \E p \in Callers :
        /\ op[p] = "func" /\ PrevExhausted(p)
        /\ pc[p] = "done"
        /\ Len(hist[p]) = 5 /\ AllServerSide(hist[p], 5)
        /\ outcome[p].kind = "raise"

----------------------------------------------------------------------------
(* Properties of PricingSvc *)

LoadSucceeded ==
    svc.method = "load" /\ svc.pc = "done" /\ svc.out.kind = "return"

\* C20: get_pricing_dataframe(t) returns the frame that the latest
\* successful load_financial_data for t got from get_enriched_prices, and
\* None when no load for t has succeeded; a successful load replaces the
\* frame of its ticker and leaves the entries of the other tickers as they
\* were
C20_LatestLoadedFrame ==
    /\ (svc.method = "get" /\ svc.pc = "done") => svc.out = Ret(lastLoaded[svc.ticker])
    /\ LoadSucceeded =>
           /\ pricing_dict[svc.ticker] = Some(outcome["c1"].value)
           /\ \A t \in Tickers \ {svc.ticker} : pricing_dict[t] = svc.before[t]

C20_Witness ==
    /\ svc.method = "get" /\ svc.pc = "done"
    /\ svc.ticker = "AAPL"
    /\ fetched[<<"enriched_prices", "AAPL">>] = {<<1234>>}
    /\ svc.out.value = Some(<<1230>>)
    /\ pricing_dict["MSFT"].isNone

\* C21: a load_financial_data(t) that returns gives the frame it has just
\* loaded for t, the value that a following get_pricing_dataframe(t) returns
C21_LoadReturnsFrame ==
    LoadSucceeded => svc.out = Ret(pricing_dict[svc.ticker])

----------------------------------------------------------------------------
(* Properties of get_latest_close_price *)

\* C22: get_latest_close_price accepts every max_looback in 1..10, and for
\* every other value it raises ValidationError with the cache and the
\* provider untouched
C22_LookbackOneToTen ==
    lcp.pc # "idle" =>
        /\ lcp.rejected <=> lcp.max_looback \notin 1..10
        /\ lcp.rejected => lcp.out = Raise(ValidationError(NoCause, 0))

----------------------------------------------------------------------------
(* Properties of the cache entries across calls *)

\* C23: a call whose read of the cache hits performs no cache.write: the
\* entry of a key is written by the fetch that creates it and not again
C23_NoWriteOnHit ==
    \A p \in Callers : hit[p] => pc[p] # "write" /\ writes[p] = 0

----------------------------------------------------------------------------
(* Properties of empty results *)

\* in its latest attempt the call missed the cache and the provider returned
\* an empty result
EmptyFetched(p) ==
    /\ Wrapped(op[p]) /\ ChecksEmpty(op[p])
    /\ ~hit[p] /\ ~api_response[p].isNone /\ Len(api_response[p].v) = 0

\* C24 as stated: when the provider returns an empty result, the operation
\* raises a DataError without a cause after exactly one provider call and no
\* sleep
C24_Original ==
    \A p \in Callers :
        (EmptyFetched(p) /\ pc[p] = "done")
            => /\ outcome[p] = Raise(DataError(NoCause, attempt[p]))
               /\ providerCalls[p] = 1 /\ sleeps[p] = 0

\* C24 as amended: when the provider returns an empty result, the operation
\* raises a DataError without a cause from that attempt: no sleep and no
\* provider call follow it (the attempts before it each failed with a
\* status >= 500 and were slept on); when the first attempt gets the empty
\* result there is exactly one provider call and no sleep
C24_EmptyResultNotRetried ==
    \A p \in Callers :
        EmptyFetched(p) =>
            /\ pc[p] \in {"write", "done"}
            /\ providerOk[p] = 1
            /\ providerCalls[p] = attempt[p] /\ sleeps[p] = attempt[p] - 1
            /\ pc[p] = "done" =>
                   /\ outcome[p] = Raise(DataError(NoCause, attempt[p]))
                   /\ Len(hist[p]) = attempt[p]

C24_Witness ==
    \E p \in Callers :
        /\ EmptyFetched(p) /\ pc[p] = "done"
        /\ op[p] = "historical_data"
        /\ providerCalls[p] = 1 /\ sleeps[p] = 0
        /\ outcome[p].exc.cause = NoCause

\* the preceding call of the caller, on the same key, ended in an error
PrevFailed(p) == prev[p].valid /\ prev[p].outcome.kind = "raise"

\* C25: after a call that ended in an error, a later call for the same key
\* finds no entry that the failed call left (it goes to the provider), and
\* when the provider then returns data that is not empty it returns that data
C25_RecoversAfterFailure ==
    \A p \in Callers :
        (PrevFailed(p) /\ op[p] # "func") =>
            /\ pc[p] = "done" => providerCalls[p] >= 1
            /\ (pc[p] = "done" /\ providerOk[p] >= 1 /\ Len(api_response[p].v) > 0)
                   => outcome[p] = Ret(api_response[p].v)

----------------------------------------------------------------------------
(* Termination of retry_server_errors *)

\* a run that has ended gave the value of its last attempt or raised the
\* error of its last attempt, an exception and not None
EndsProperly(p) ==
    /\ attempt[p] <= 5 /\ Len(hist[p]) <= 5
    /\ (pc[p] = "done" /\ op[p] = "func") =>
           /\ Len(hist[p]) >= 1
           /\ outcome[p] = hist[p][Len(hist[p])]
           /\ outcome[p].kind \in {"return", "raise"}
           /\ outcome[p].kind = "return" => outcome[p].value \in FuncValues
           /\ outcome[p].kind = "raise" => outcome[p].exc.type # "None"

\* C26: when every attempt of the wrapped function ends, every run of the
\* wrapper ends, after at most 5 attempts, by returning the value of a
\* successful attempt or by raising the error of the last attempt made
C26_Terminates ==
    /\ [](\A p \in Callers : EndsProperly(p))
    /\ (pc["c1"] \in {"run", "sleep"}) ~> (pc["c1"] = "done")

C26_Witness ==
    /\ pc["c1"] = "done" /\ op["c1"] = "func"
    /\ Len(hist["c1"]) = 5
    /\ AllServerSide(hist["c1"], 4)
    /\ FailsClientSide(hist["c1"][5])
    /\ outcome["c1"] = hist["c1"][5]

----------------------------------------------------------------------------
(* Retries among concurrent callers *)

\* C27: every attempt of a retrying call reads the cache again and calls the
\* provider only when that read missed; an attempt that finds the key
\* written by another caller since the attempt before returns the cached
\* data and calls no provider
C27_RetryReadsCacheAgain ==
    \A p \in Callers :
        Wrapped(op[p]) =>
            /\ pc[p] = "fetch" => ~hit[p]
            /\ providerCalls[p] <= attempt[p]
            /\ (hit[p] /\ attempt[p] >= 2 /\ pc[p] = "done") =>
                   /\ outcome[p] = Ret(api_response[p].v)
                   /\ providerCalls[p] = attempt[p] - 1


\* the cache entry of the statement of ticker t and year y
StatementEntry(c, t, y) == c[<<"statement_" \o ToString(y), t>>]

\* the year of stmt[p] whose fetched statement is not written yet
Unwritten(p, y) == pc[p] = "stmt_write" /\ stmt[p].i = y

CfCalled == awsCall'.n = awsCall.n + 1

\* C29: once a call of cf_list_exports has returned, every later call returns
\* without a CloudFormation request. A call that raises raises AWSError and
\* leaves aws_response_cache as it was, and the call after it performs the
\* lookup again.
C29_CachedAfterFirstSuccess ==
    [][CfCalled =>
          /\ awsCall.out.kind = "return" =>
                 awsCall'.out.kind = "return" /\ awsCall'.lookups = 0
          /\ awsCall'.out.kind = "raise" =>
                 /\ awsCall'.out.exc.type = "AWSError"
                 /\ aws_response_cache' = aws_response_cache
          /\ awsCall.out.kind = "raise" => awsCall'.lookups = 1]_vars

\* a failed call, then a call that looked the exports up, then a call that
\* was answered without a request
C29_Witness ==
    /\ awsCall.n = 3 /\ awsCall.requests = 2
    /\ awsCall.lookups = 0 /\ awsCall.out.kind = "return"
    /\ ~aws_response_cache.isNone


\* the orders a series of n observations can be given in
Orders(n) == {f \in [1..n -> 1..n] : \A i, j \in 1..n : f[i] = f[j] => i = j}
Reordered(data, f) == [i \in 1..Len(data) |-> data[f[i]]]

\* the results of _aggregate_by_year_month for the orders of the series
ResultsOfOrders ==
    {aggregate_by_year_month(Some(Reordered(series.v, f))) : f \in Orders(Len(series.v))}

\* every value of the series is below 2^53
SmallValues(data) == \A i \in 1..Len(data) : data[i].value.hi = 0

SameBuckets(a, b) ==
    /\ a.kind = "return" /\ b.kind = "return"
    /\ DOMAIN a.value = DOMAIN b.value
    /\ \A y \in DOMAIN a.value : DOMAIN a.value[y] = DOMAIN b.value[y]

\* C30 as stated: _aggregate_by_year_month gives the same result for every
\* order of one series, and leaves the series as it was
C30_Original ==
    /\ [](Applied("year_month") => \A r \in ResultsOfOrders : r = aggOut.out)
    /\ [][series' = series]_vars

\* C30: _aggregate_by_year_month leaves the series as it was and gives the
\* same years and months for every order of one series; the averages are the
\* same too when the values are small enough for every sum to be exact
\* (integers below 2^53); otherwise the rounding of sum() depends on the order
C30_OrderIndependentWhenExact ==
    /\ [](Applied("year_month") =>
             \A r \in ResultsOfOrders :
                 /\ SameBuckets(r, aggOut.out)
                 /\ SmallValues(series.v) => r = aggOut.out)
    /\ [][series' = series]_vars

\* three different small values of one month, averaged
C30_Witness ==
    /\ Applied("year_month")
    /\ Len(series.v) = 3 /\ SmallValues(series.v)
    /\ \A i \in 1..3 : series.v[i].date.y = 2018 /\ series.v[i].date.m = 9
    /\ series.v[1].value # series.v[2].value
    /\ series.v[1].date # series.v[3].date
    /\ aggOut.out.value[2018][9] = [num |-> Float(0, 5), den |-> 3]


----------------------------------------------------------------------------
(* Properties of get_enriched_prices and its callers *)

\* the provider call of a call of get_enriched_prices raised
YahooFailed(p) ==
    /\ pc[p] = "done" /\ op[p] = "enriched_prices"
    /\ providerCalls[p] = 1 /\ providerOk[p] = 0

\* C31: when the Yahoo provider call of get_enriched_prices raises on a cache
\* miss, the caller gets a DataError whose cause is the exception of the
\* provider, and nothing is written to the cache
C31_YahooFailureIsDataError ==
    \A p \in Callers :
        YahooFailed(p) =>
            /\ outcome[p].kind = "raise"
            /\ outcome[p].exc.type = "DataError"
            /\ outcome[p].exc.cause = PlainException
            /\ writes[p] = 0 /\ cache = cache0[p]


\* get_latest_close_price has ended after calling get_daily_stock_close_prices
LatestCalled == lcp.pc = "done" /\ ~lcp.rejected

\* C32: get_latest_close_price returns the pair of the greatest date among
\* the prices get_daily_stock_close_prices gave and the close price of that
\* date; when that call raises, its error reaches the caller as it is
C32_LatestDateAndItsClose ==
    LatestCalled =>
        IF outcome["c1"].kind = "return"
        THEN LET prices == outcome["c1"].value
                 last == CHOOSE i \in 1..Len(prices) :
                             \A j \in 1..Len(prices) :
                                 PriceDate(prices[j]) <= PriceDate(prices[i])
             IN  lcp.out = Ret(<<PriceDate(prices[last]), PriceClose(prices[last])>>)
        ELSE lcp.out = outcome["c1"]

\* prices of two days, the later one first in the list
C32_Witness ==
    /\ LatestCalled
    /\ outcome["c1"] = Ret(<<2, 1>>)
    /\ lcp.out = Ret(<<2, 102>>)


\* load_financial_data has ended with the exception of get_enriched_prices
LoadFailed == svc.method = "load" /\ svc.pc = "done" /\ svc.out.kind = "raise"

\* C33: a load_financial_data that fails because get_enriched_prices raises
\* leaves pricing_dict as it was: no entry is made for the ticker, and a
\* get_pricing_dataframe that follows returns what was stored before the load
C33_FailedLoadKeepsFrames ==
    /\ [](LoadFailed => pricing_dict = svc.before)
    /\ [][(LoadFailed /\ svc'.method = "get") =>
              svc'.out = Ret(svc.before[svc'.ticker])]_vars

\* the load of other dates of a ticker fails after its frame had been stored
C33_Witness ==
    /\ LoadFailed
    /\ svc.ticker = "AAPL" /\ ticker["c1"] = PricesQuery("AAPL", "2021-02")
    /\ pricing_dict["AAPL"] = Some(<<1230>>)
    /\ pricing_dict["MSFT"].isNone

============================================================================
